---- MODULE Spec2Model ----
(***************************************************************************)
(* A model of lemon_wrapper.cpp: the C interface of LemonNet over LEMON's  *)
(* SmartDigraph, its arc and node maps, the two max-flow algorithms and    *)
(* the two shortest-path algorithms.                                       *)
(*                                                                         *)
(* The wrapper is modelled from lemon_wrapper.cpp.  LEMON itself (the      *)
(* lemon-1.3.1 headers) is not part of the sources at hand: SmartDigraph,  *)
(* its maps and the four algorithm classes are modelled from their         *)
(* description.                                                            *)
(*                                                                         *)
(* double values are modelled by integers: every length used here is a     *)
(* small integer, which a double holds and adds exactly.                   *)
(***************************************************************************)
EXTENDS Integers, Sequences, FiniteSets, TLC

(***************************************************************************)
(* Bounds of the model.                                                    *)
(***************************************************************************)
MaxNodes == 3
MaxArcs == 2
MaxAlgArcs == 3
MaxVal == 1
MaxInterfaceNodes == 2
MaxInterfaceArcs == 2

VARIABLES
    graph,      \* GraphWrapper::graph, the SmartDigraph
    nodes,      \* GraphWrapper::nodes, native node of each external node id
    arcs,       \* GraphWrapper::arcs, native arc of each external arc id
    arc_map,    \* the live ArcMapWrapper, or NoArcMap
    node_map,   \* the live NodeMapWrapper, or NoNodeMap
    last,       \* the latest call: operation, handle, return value and outputs
                \* (and the source and target of an algorithm call that ran)
    hist        \* history: the ids returned so far, the counts at map creation

vars == <<graph, nodes, arcs, arc_map, node_map, last, hist>>

\* std::numeric_limits<double>::infinity(), above every finite distance here
Infinity == 1000

Min(a, b) == IF a < b THEN a ELSE b
Max(a, b) == IF a < b THEN b ELSE a

RECURSIVE SeqSum(_)
SeqSum(s) == IF s = <<>> THEN 0 ELSE Head(s) + SeqSum(Tail(s))

(***************************************************************************)
(* LEMON's SmartDigraph: nodes and arcs are numbered 0, 1, 2, ... in the   *)
(* order they are added, and nothing is ever removed.                      *)
(***************************************************************************)
EmptyDigraph == [node_num |-> 0, arc_ends |-> <<>>]

SmartDigraph_addNode(g) == [g EXCEPT !.node_num = g.node_num + 1]

SmartDigraph_addArc(g, u, v) ==
    [g EXCEPT !.arc_ends = Append(g.arc_ends, [source |-> u, target |-> v])]

SmartDigraph_source(g, a) == g.arc_ends[a + 1].source

SmartDigraph_target(g, a) == g.arc_ends[a + 1].target

ArcNum(g) == Len(g.arc_ends)

NodeIds(g) == 0 .. (g.node_num - 1)

ArcIds(g) == 0 .. (ArcNum(g) - 1)

(***************************************************************************)
(* LEMON's graph maps observe their graph: a map is built with one         *)
(* zero-initialised cell per existing item, and addNode/addArc add a       *)
(* zero-initialised cell to every map attached to the graph.               *)
(***************************************************************************)
\* the ids 0, 1, ..., n - 1 in order
DenseIds(n) == [i \in 1 .. n |-> i - 1]

NewMapCells(n) == [i \in 1 .. n |-> 0]

MapExtended(cells) == Append(cells, 0)

NoArcMap == [type |-> "NONE", cells |-> <<>>]

NoNodeMap == [live |-> FALSE, cells |-> <<>>]

(***************************************************************************)
(* Handles as the caller passes them.                                      *)
(***************************************************************************)
GraphHandles == {"NULL", "graph"}

MapHandles == {"NULL", "map"}

NoOut == <<>>

Call(op, h, x, y, ret, out) ==
    [op |-> op, h |-> h, x |-> x, y |-> y, ret |-> ret, out |-> out]

(***************************************************************************)
(* Initial state: lemon_create_graph() has returned an empty GraphWrapper. *)
(***************************************************************************)
lemon_create_graph ==
    /\ graph = EmptyDigraph
    /\ nodes = <<>>
    /\ arcs = <<>>

Init ==
    /\ lemon_create_graph
    /\ arc_map = NoArcMap
    /\ node_map = NoNodeMap
    /\ last = Call("create_graph", "graph", 0, 0, 0, NoOut)
    /\ hist = [node_ids |-> <<>>, arc_ids |-> <<>>,
               arc_count0 |-> 0, node_count0 |-> 0]

(***************************************************************************)
(* The bounds checks of the wrapper.                                       *)
(***************************************************************************)
NodeIdInRange(id, ns) == ~(id < 0 \/ id >= Len(ns))

ArcIdInRange(id, as) == ~(id < 0 \/ id >= Len(as))

\* the index a linear search of a vector returns for a native handle, or -1
RECURSIVE IndexFrom(_, _, _)
IndexFrom(vec, x, i) ==
    IF i > Len(vec) THEN -1
    ELSE IF vec[i] = x THEN i - 1
    ELSE IndexFrom(vec, x, i + 1)

IndexOf(vec, x) == IndexFrom(vec, x, 1)

(***************************************************************************)
(* lemon_add_node                                                          *)
(***************************************************************************)
AddNodeRetWrong(ns) == Len(ns)

AddNodeRet(ns) == Len(ns) - 1

lemon_add_node(h) ==
    IF h = "NULL"
    THEN /\ last' = Call("add_node", h, 0, 0, -1, NoOut)
         /\ UNCHANGED <<graph, nodes, arcs, arc_map, node_map, hist>>
    ELSE /\ graph' = SmartDigraph_addNode(graph)
         /\ nodes' = Append(nodes, graph.node_num)
         /\ node_map' = IF node_map.live
                        THEN [node_map EXCEPT !.cells = MapExtended(@)]
                        ELSE node_map
         /\ last' = Call("add_node", h, 0, 0, AddNodeRet(nodes'), NoOut)
         /\ hist' = [hist EXCEPT !.node_ids = Append(@, last'.ret)]
         /\ UNCHANGED <<arcs, arc_map>>

(***************************************************************************)
(* lemon_add_arc                                                           *)
(***************************************************************************)
AddArcRet(as) == Len(as) - 1

AddArcEndpointsOk(s, t, ns) == NodeIdInRange(s, ns) /\ NodeIdInRange(t, ns)

lemon_add_arc(h, s, t) ==
    IF h = "NULL" \/ ~AddArcEndpointsOk(s, t, nodes)
    THEN /\ last' = Call("add_arc", h, 0, 0, -1, NoOut)
         /\ UNCHANGED <<graph, nodes, arcs, arc_map, node_map, hist>>
    ELSE /\ graph' = SmartDigraph_addArc(graph, nodes[s + 1], nodes[t + 1])
         /\ arcs' = Append(arcs, ArcNum(graph))
         /\ arc_map' = IF arc_map.type # "NONE"
                       THEN [arc_map EXCEPT !.cells = MapExtended(@)]
                       ELSE arc_map
         /\ last' = Call("add_arc", h, 0, 0, AddArcRet(arcs'), NoOut)
         /\ hist' = [hist EXCEPT !.arc_ids = Append(@, last'.ret)]
         /\ UNCHANGED <<nodes, node_map>>

(***************************************************************************)
(* lemon_arc_source, lemon_arc_target, lemon_node_count, lemon_arc_count   *)
(***************************************************************************)
ArcSourceRetWrong(h, a) ==
    IF h = "NULL" THEN -1
    ELSE IF ~ArcIdInRange(a, arcs) THEN 0
    ELSE IndexOf(nodes, SmartDigraph_source(graph, arcs[a + 1]))

ArcSourceRet(h, a) ==
    IF h = "NULL" THEN -1
    ELSE IF ~ArcIdInRange(a, arcs) THEN -1
    ELSE IndexOf(nodes, SmartDigraph_source(graph, arcs[a + 1]))

ArcTargetRetWrong(h, a) ==
    IF h = "NULL" THEN -1
    ELSE IF ~ArcIdInRange(a, arcs) THEN -1
    ELSE IndexOf(nodes, SmartDigraph_source(graph, arcs[a + 1]))

ArcTargetRet(h, a) ==
    IF h = "NULL" THEN -1
    ELSE IF ~ArcIdInRange(a, arcs) THEN -1
    ELSE IndexOf(nodes, SmartDigraph_target(graph, arcs[a + 1]))

NodeCountRet(h) == IF h = "NULL" THEN 0 ELSE Len(nodes)

ArcCountRet(h) == IF h = "NULL" THEN 0 ELSE Len(arcs)

Query(op, h, ret) ==
    /\ last' = Call(op, h, 0, 0, ret, NoOut)
    /\ UNCHANGED <<graph, nodes, arcs, arc_map, node_map, hist>>

lemon_arc_source(h, a) == Query("arc_source", h, ArcSourceRet(h, a))

lemon_arc_target(h, a) == Query("arc_target", h, ArcTargetRet(h, a))

lemon_node_count(h) == Query("node_count", h, NodeCountRet(h))

lemon_arc_count(h) == Query("arc_count", h, ArcCountRet(h))

(***************************************************************************)
(* Arguments the caller may pass.                                          *)
(***************************************************************************)
NodeArgs == -1 .. MaxNodes

ArcArgs == -1 .. MaxArcs

(***************************************************************************)
(* The graph store on its own.                                             *)
(***************************************************************************)
RoomForNode == Len(nodes) < MaxNodes

RoomForArc == Len(arcs) < MaxArcs

NextStore ==
    \/ RoomForNode /\ \E h \in GraphHandles : lemon_add_node(h)
    \/ RoomForArc /\ \E h \in GraphHandles, s \in NodeArgs, t \in NodeArgs :
            lemon_add_arc(h, s, t)
    \/ \E h \in GraphHandles, a \in ArcArgs : lemon_arc_source(h, a)
    \/ \E h \in GraphHandles, a \in ArcArgs : lemon_arc_target(h, a)
    \/ \E h \in GraphHandles : lemon_node_count(h)
    \/ \E h \in GraphHandles : lemon_arc_count(h)

SpecStore == Init /\ [][NextStore]_vars

(***************************************************************************)
(* Arc maps.  The caller holds at most one map at a time in this model     *)
(* (an arc map or a node map): "map" is the handle of the live one.        *)
(***************************************************************************)
NoLiveMap == arc_map.type = "NONE" /\ ~node_map.live

MapCreated(op, h, ret) == last' = Call(op, h, 0, 0, ret, NoOut)

ArcMapWrapper(t) == [type |-> t, cells |-> NewMapCells(ArcNum(graph))]

create_arc_map(op, h, t) ==
    IF h = "NULL"
    THEN /\ MapCreated(op, h, 0)
         /\ UNCHANGED <<graph, nodes, arcs, arc_map, node_map, hist>>
    ELSE /\ NoLiveMap
         /\ arc_map' = ArcMapWrapper(t)
         /\ hist' = [hist EXCEPT !.arc_count0 = Len(arcs)]
         /\ MapCreated(op, h, 1)
         /\ UNCHANGED <<graph, nodes, arcs, node_map>>

lemon_create_arc_map_long(h) == create_arc_map("create_arc_map_long", h, "LONG")

lemon_create_arc_map_double(h) == create_arc_map("create_arc_map_double", h, "DOUBLE")

lemon_destroy_arc_map(m) ==
    /\ m = "map" => arc_map.type # "NONE"
    /\ arc_map' = IF m = "NULL" THEN arc_map ELSE NoArcMap
    /\ last' = Call("destroy_arc_map", m, 0, 0, 0, NoOut)
    /\ UNCHANGED <<graph, nodes, arcs, node_map, hist>>

\* the map after lemon_set_arc_value_long / lemon_set_arc_value_double
SetArcValueWrong(m, t, a, v) ==
    IF m = "NULL" THEN arc_map
    ELSE IF ~ArcIdInRange(a, arcs) THEN arc_map
    ELSE [arc_map EXCEPT !.cells[arcs[a + 1] + 1] = v]

SetArcValue(m, t, a, v) ==
    IF m = "NULL" THEN arc_map
    ELSE IF arc_map.type # t THEN arc_map
    ELSE IF ~ArcIdInRange(a, arcs) THEN arc_map
    ELSE [arc_map EXCEPT !.cells[arcs[a + 1] + 1] = v]

\* what lemon_get_arc_value_long / lemon_get_arc_value_double return
GetArcValueWrong(m, t, a) ==
    IF m = "NULL" THEN 0
    ELSE IF arc_map.type # t THEN 0
    ELSE IF a < 0 \/ a >= hist.arc_count0 THEN 0
    ELSE arc_map.cells[arcs[a + 1] + 1]

GetArcValue(m, t, a) ==
    IF m = "NULL" THEN 0
    ELSE IF arc_map.type # t THEN 0
    ELSE IF ~ArcIdInRange(a, arcs) THEN 0
    ELSE arc_map.cells[arcs[a + 1] + 1]

set_arc_value(op, m, t, a, v) ==
    /\ m = "map" => arc_map.type # "NONE"
    /\ arc_map' = SetArcValue(m, t, a, v)
    /\ last' = Call(op, m, 0, 0, 0, NoOut)
    /\ UNCHANGED <<graph, nodes, arcs, node_map, hist>>

get_arc_value(op, m, t, a) ==
    /\ m = "map" => arc_map.type # "NONE"
    /\ last' = Call(op, m, 0, 0, GetArcValue(m, t, a), NoOut)
    /\ UNCHANGED <<graph, nodes, arcs, arc_map, node_map, hist>>

lemon_set_arc_value_long(m, a, v) == set_arc_value("set_arc_value_long", m, "LONG", a, v)

lemon_get_arc_value_long(m, a) == get_arc_value("get_arc_value_long", m, "LONG", a)

lemon_set_arc_value_double(m, a, v) ==
    set_arc_value("set_arc_value_double", m, "DOUBLE", a, v)

lemon_get_arc_value_double(m, a) == get_arc_value("get_arc_value_double", m, "DOUBLE", a)

(***************************************************************************)
(* Node maps.                                                              *)
(***************************************************************************)
NodeMapWrapper == [live |-> TRUE, cells |-> NewMapCells(graph.node_num)]

lemon_create_node_map_double(h) ==
    IF h = "NULL"
    THEN /\ MapCreated("create_node_map_double", h, 0)
         /\ UNCHANGED <<graph, nodes, arcs, arc_map, node_map, hist>>
    ELSE /\ NoLiveMap
         /\ node_map' = NodeMapWrapper
         /\ hist' = [hist EXCEPT !.node_count0 = Len(nodes)]
         /\ MapCreated("create_node_map_double", h, 1)
         /\ UNCHANGED <<graph, nodes, arcs, arc_map>>

lemon_destroy_node_map(m) ==
    /\ m = "map" => node_map.live
    /\ node_map' = IF m = "NULL" THEN node_map ELSE NoNodeMap
    /\ last' = Call("destroy_node_map", m, 0, 0, 0, NoOut)
    /\ UNCHANGED <<graph, nodes, arcs, arc_map, hist>>

SetNodeValue(m, n, v) ==
    IF m = "NULL" THEN node_map
    ELSE IF ~NodeIdInRange(n, nodes) THEN node_map
    ELSE [node_map EXCEPT !.cells[nodes[n + 1] + 1] = v]

GetNodeValue(m, n) ==
    IF m = "NULL" THEN 0
    ELSE IF ~NodeIdInRange(n, nodes) THEN 0
    ELSE node_map.cells[nodes[n + 1] + 1]

lemon_set_node_value_double(m, n, v) ==
    /\ m = "map" => node_map.live
    /\ node_map' = SetNodeValue(m, n, v)
    /\ last' = Call("set_node_value_double", m, 0, 0, 0, NoOut)
    /\ UNCHANGED <<graph, nodes, arcs, arc_map, hist>>

lemon_get_node_value_double(m, n) ==
    /\ m = "map" => node_map.live
    /\ last' = Call("get_node_value_double", m, 0, 0, GetNodeValue(m, n), NoOut)
    /\ UNCHANGED <<graph, nodes, arcs, arc_map, node_map, hist>>

(***************************************************************************)
(* The attribute maps over a growing graph.  The accessors never read an   *)
(* arc's endpoints, so every arc added here is a loop at node 0.           *)
(***************************************************************************)
MapValues == 0 .. MaxVal

NextMap ==
    \/ RoomForNode /\ lemon_add_node("graph")
    \/ RoomForArc /\ lemon_add_arc("graph", 0, 0)
    \/ \E h \in GraphHandles : lemon_create_arc_map_long(h)
    \/ \E h \in GraphHandles : lemon_create_arc_map_double(h)
    \/ \E m \in MapHandles : lemon_destroy_arc_map(m)
    \/ \E m \in MapHandles, a \in ArcArgs, v \in MapValues :
            lemon_set_arc_value_long(m, a, v)
    \/ \E m \in MapHandles, a \in ArcArgs : lemon_get_arc_value_long(m, a)
    \/ \E m \in MapHandles, a \in ArcArgs, v \in MapValues :
            lemon_set_arc_value_double(m, a, v)
    \/ \E m \in MapHandles, a \in ArcArgs : lemon_get_arc_value_double(m, a)
    \/ \E h \in GraphHandles : lemon_create_node_map_double(h)
    \/ \E m \in MapHandles : lemon_destroy_node_map(m)
    \/ \E m \in MapHandles, n \in NodeArgs, v \in MapValues :
            lemon_set_node_value_double(m, n, v)
    \/ \E m \in MapHandles, n \in NodeArgs : lemon_get_node_value_double(m, n)

SpecMap == Init /\ [][NextMap]_vars

(***************************************************************************)
(* Iteration over a SmartDigraph: the arcs leaving and entering a node,    *)
(* latest first.                                                           *)
(***************************************************************************)
ArcsLatestFirst(g) == [i \in 1 .. ArcNum(g) |-> ArcNum(g) - i]

OutArcs(g, n) ==
    SelectSeq(ArcsLatestFirst(g), LAMBDA a : SmartDigraph_source(g, a) = n)

InArcs(g, n) ==
    SelectSeq(ArcsLatestFirst(g), LAMBDA a : SmartDigraph_target(g, a) = n)

ZeroFlow(g) == [i \in 1 .. ArcNum(g) |-> 0]

(***************************************************************************)
(* LEMON's EdmondsKarp: augment along a shortest path of the residual      *)
(* graph, found breadth first, until the target cannot be reached.         *)
(***************************************************************************)
NoPred == [arc |-> -1, fwd |-> TRUE]

RootPred == [arc |-> -2, fwd |-> TRUE]

\* the residual arcs at node n: [arc, fwd, to]
ResidualSteps(g, n) ==
    LET out == OutArcs(g, n)
        in == InArcs(g, n)
    IN  [i \in 1 .. Len(out) |->
            [arc |-> out[i], fwd |-> TRUE, to |-> SmartDigraph_target(g, out[i])]]
        \o [i \in 1 .. Len(in) |->
            [arc |-> in[i], fwd |-> FALSE, to |-> SmartDigraph_source(g, in[i])]]

Residual(cap, flow, e) ==
    IF e.fwd THEN cap[e.arc + 1] - flow[e.arc + 1] ELSE flow[e.arc + 1]

RECURSIVE EK_scan(_, _, _, _)
EK_scan(cap, flow, steps, st) ==
    IF steps = <<>> THEN st
    ELSE LET e == Head(steps)
             found == Residual(cap, flow, e) > 0 /\ st.pred[e.to] = NoPred
             st2 == IF found
                    THEN [pred |-> [st.pred EXCEPT ![e.to] = [arc |-> e.arc, fwd |-> e.fwd]],
                          queue |-> Append(st.queue, e.to)]
                    ELSE st
         IN  EK_scan(cap, flow, Tail(steps), st2)

RECURSIVE EK_bfs(_, _, _, _, _, _)
EK_bfs(g, cap, flow, t, st, first) ==
    IF first > Len(st.queue) \/ st.pred[t] # NoPred THEN st.pred
    ELSE EK_bfs(g, cap, flow, t,
                EK_scan(cap, flow, ResidualSteps(g, st.queue[first]), st), first + 1)

\* the residual arcs of the path found, from the target back to the source
RECURSIVE EK_path(_, _, _, _)
EK_path(g, pred, n, s) ==
    IF n = s THEN <<>>
    ELSE LET p == pred[n]
             prev == IF p.fwd THEN SmartDigraph_source(g, p.arc)
                     ELSE SmartDigraph_target(g, p.arc)
         IN  <<p>> \o EK_path(g, pred, prev, s)

RECURSIVE SeqMin(_)
SeqMin(q) == IF Len(q) = 1 THEN q[1] ELSE Min(q[1], SeqMin(Tail(q)))

RECURSIVE EK_push(_, _, _)
EK_push(flow, path, d) ==
    IF path = <<>> THEN flow
    ELSE LET p == Head(path)
         IN  EK_push([flow EXCEPT ![p.arc + 1] = IF p.fwd THEN @ + d ELSE @ - d],
                     Tail(path), d)

RECURSIVE EK_start(_, _, _, _, _, _)
EK_start(g, cap, flow, value, s, t) ==
    LET pred == EK_bfs(g, cap, flow, t,
                       [pred |-> [n \in NodeIds(g) |-> IF n = s THEN RootPred ELSE NoPred],
                        queue |-> <<s>>], 1)
    IN  IF pred[t] = NoPred THEN [flow_map |-> flow, flow_value |-> value]
        ELSE LET path == EK_path(g, pred, t, s)
                 prem == SeqMin([i \in 1 .. Len(path) |-> Residual(cap, flow, path[i])])
             IN  EK_start(g, cap, EK_push(flow, path, prem), value + prem, s, t)

EdmondsKarp(g, cap, s, t) == EK_start(g, cap, ZeroFlow(g), 0, s, t)

(***************************************************************************)
(* LEMON's Preflow: push-relabel.  The source starts at height node_num    *)
(* with its leaving arcs saturated; an active node (positive excess, not   *)
(* the source or the target) pushes along an admissible residual arc, or   *)
(* is relabelled to one above its lowest residual neighbour; the flow      *)
(* value is the excess collected at the target.                            *)
(***************************************************************************)
RECURSIVE PF_saturate(_, _, _, _, _)
PF_saturate(g, cap, out, s, st) ==
    IF out = <<>> THEN st
    ELSE LET a == Head(out)
             u == SmartDigraph_target(g, a)
             st2 == IF cap[a + 1] > 0 /\ u # s
                    THEN [st EXCEPT !.flow[a + 1] = cap[a + 1],
                                    !.excess[u] = @ + cap[a + 1]]
                    ELSE st
         IN  PF_saturate(g, cap, Tail(out), s, st2)

PF_init(g, cap, s) ==
    PF_saturate(g, cap, OutArcs(g, s), s,
                [flow |-> ZeroFlow(g),
                 excess |-> [n \in NodeIds(g) |-> 0],
                 height |-> [n \in NodeIds(g) |-> IF n = s THEN g.node_num ELSE 0]])

PF_active(g, st, s, t) == {n \in NodeIds(g) \ {s, t} : st.excess[n] > 0}

\* the highest active node, the lowest id among equals
PF_highest(act, st) ==
    CHOOSE n \in act :
        \A k \in act : st.height[k] < st.height[n]
                          \/ (st.height[k] = st.height[n] /\ n <= k)

PF_push(cap, st, n, e) ==
    LET d == Min(st.excess[n], Residual(cap, st.flow, e))
    IN  [st EXCEPT !.flow[e.arc + 1] = IF e.fwd THEN @ + d ELSE @ - d,
                   !.excess[n] = @ - d,
                   !.excess[e.to] = @ + d]

PF_relabel(st, n, open) ==
    [st EXCEPT !.height[n] =
        1 + SeqMin([i \in 1 .. Len(open) |-> st.height[open[i].to]])]

RECURSIVE PF_start(_, _, _, _, _)
PF_start(g, cap, st, s, t) ==
    LET act == PF_active(g, st, s, t)
    IN  IF act = {} THEN [flow_map |-> st.flow, flow_value |-> st.excess[t]]
        ELSE LET n == PF_highest(act, st)
                 open == SelectSeq(ResidualSteps(g, n),
                                   LAMBDA e : Residual(cap, st.flow, e) > 0)
                 adm == SelectSeq(open,
                                  LAMBDA e : st.height[n] = st.height[e.to] + 1)
             IN  IF adm # <<>>
                 THEN PF_start(g, cap, PF_push(cap, st, n, Head(adm)), s, t)
                 ELSE PF_start(g, cap, PF_relabel(st, n, open), s, t)

Preflow(g, cap, s, t) == PF_start(g, cap, PF_init(g, cap, s), s, t)

(***************************************************************************)
(* What alg.run() leaves in flow_map and flowValue().  With source =       *)
(* target neither algorithm's description defines the result: what comes   *)
(* back is taken to be any circulation within the capacities (the zero     *)
(* flow among them), its value the flow it sends out of the source.        *)
(***************************************************************************)
FlowInto(g, f, n) ==
    SeqSum([a \in 1 .. ArcNum(g) |->
               IF SmartDigraph_target(g, a - 1) = n
                  /\ SmartDigraph_source(g, a - 1) # n THEN f[a] ELSE 0])

FlowOutOf(g, f, n) ==
    SeqSum([a \in 1 .. ArcNum(g) |->
               IF SmartDigraph_source(g, a - 1) = n
                  /\ SmartDigraph_target(g, a - 1) # n THEN f[a] ELSE 0])

Circulations(g, cap, s) ==
    {[flow_map |-> f, flow_value |-> FlowOutOf(g, f, s)] :
        f \in {x \in [1 .. ArcNum(g) -> 0 .. MaxVal] :
                  /\ \A i \in 1 .. ArcNum(g) : x[i] <= Max(cap[i], 0)
                  /\ \A n \in NodeIds(g) : FlowInto(g, x, n) = FlowOutOf(g, x, n)}}

MaxFlowRuns(alg, g, cap, s, t) ==
    IF s = t THEN Circulations(g, cap, s)
    ELSE IF alg = "edmonds_karp" THEN {EdmondsKarp(g, cap, s, t)}
    ELSE {Preflow(g, cap, s, t)}

(***************************************************************************)
(* run_max_flow_algorithm                                                  *)
(***************************************************************************)
\* what the caller finds in *flow_results and *flow_count; err is the reason
\* of a return of -1: "null", "range", "type", "alloc", or "" for none
FlowOutUntouched == [err |-> "null", flow_results |-> "UNSET", flow_count |-> "UNSET"]

FlowOutNull(err) == [err |-> err, flow_results |-> "NULL", flow_count |-> 0]

FlowOutBuffer(results) ==
    [err |-> "", flow_results |-> results, flow_count |-> Len(results)]

\* the arcs with positive flow, by external arc id
FlowResultsWrong(flow_map) ==
    LET ids == [i \in 1 .. Len(arcs) |-> i - 1]
        pos == SelectSeq(ids, LAMBDA i : flow_map[arcs[i + 1] + 1] > 1)
    IN  [k \in 1 .. Len(pos) |->
            [arc_id |-> pos[k], flow |-> flow_map[arcs[pos[k] + 1] + 1]]]

FlowResults(flow_map) ==
    LET ids == [i \in 1 .. Len(arcs) |-> i - 1]
        pos == SelectSeq(ids, LAMBDA i : flow_map[arcs[i + 1] + 1] > 0)
    IN  [k \in 1 .. Len(pos) |->
            [arc_id |-> pos[k], flow |-> flow_map[arcs[pos[k] + 1] + 1]]]

MaxFlowValueWrong(r) == SeqSum(r.flow_map)

MaxFlowValue(r) == r.flow_value

\* the copy of the results to the caller; ok: malloc returns a buffer
MaxFlowReturn(r, ok) ==
    LET results == FlowResults(r.flow_map)
    IN  IF results = <<>> THEN [ret |-> MaxFlowValue(r), out |-> FlowOutNull("")]
        ELSE IF ok THEN [ret |-> MaxFlowValue(r), out |-> FlowOutBuffer(results)]
        ELSE [ret |-> -1, out |-> FlowOutNull("alloc")]

\* the checks before the algorithm runs: "" when the call goes on
MaxFlowRefused(h, m, s, t) ==
    IF h = "NULL" \/ m = "NULL" THEN "null"
    ELSE IF ~NodeIdInRange(s, nodes) \/ ~NodeIdInRange(t, nodes) THEN "range"
    ELSE IF arc_map.type # "LONG" THEN "type"
    ELSE ""

run_max_flow_algorithm(alg, h, m, s, t, ok) ==
    /\ m = "map" => arc_map.type # "NONE"
    /\ CASE MaxFlowRefused(h, m, s, t) = "null" ->
               last' = Call(alg, h, 0, 0, -1, FlowOutUntouched)
         [] MaxFlowRefused(h, m, s, t) \in {"range", "type"} ->
               last' = Call(alg, h, 0, 0, -1, FlowOutNull(MaxFlowRefused(h, m, s, t)))
         [] OTHER ->
               \E r \in MaxFlowRuns(alg, graph, arc_map.cells, nodes[s + 1], nodes[t + 1]) :
                   last' = Call(alg, h, s, t, MaxFlowReturn(r, ok).ret,
                                MaxFlowReturn(r, ok).out)
    /\ UNCHANGED <<graph, nodes, arcs, arc_map, node_map, hist>>

lemon_edmonds_karp(h, m, s, t, ok) ==
    run_max_flow_algorithm("edmonds_karp", h, m, s, t, ok)

lemon_preflow(h, m, s, t, ok) == run_max_flow_algorithm("preflow", h, m, s, t, ok)

(***************************************************************************)
(* LEMON's Dijkstra, run(s, t): the node exploration takes from the heap   *)
(* is one of least tentative distance (which one, among equals, is the     *)
(* heap's affair); a node taken is finalized and never updated again; the  *)
(* search stops when the target is at the top of the heap, or the heap is  *)
(* empty.                                                                  *)
(***************************************************************************)
NoArc == -1

DJ_init(g, s) ==
    [dist |-> [n \in NodeIds(g) |-> 0],
     pred |-> [n \in NodeIds(g) |-> NoArc],
     heap |-> [n \in NodeIds(g) |-> IF n = s THEN "IN_HEAP" ELSE "PRE_HEAP"],
     prio |-> [n \in NodeIds(g) |-> 0]]

RECURSIVE DJ_scan(_, _, _, _, _)
DJ_scan(g, len, st, d, out) ==
    IF out = <<>> THEN st
    ELSE LET e == Head(out)
             w == SmartDigraph_target(g, e)
             newvalue == d + len[e + 1]
             st2 == IF \/ st.heap[w] = "PRE_HEAP"
                       \/ st.heap[w] = "IN_HEAP" /\ newvalue < st.prio[w]
                    THEN [dist |-> st.dist,
                          pred |-> [st.pred EXCEPT ![w] = e],
                          heap |-> [st.heap EXCEPT ![w] = "IN_HEAP"],
                          prio |-> [st.prio EXCEPT ![w] = newvalue]]
                    ELSE st
         IN  DJ_scan(g, len, st2, d, Tail(out))

DJ_processNextNode(g, len, st, v) ==
    DJ_scan(g, len,
            [dist |-> [st.dist EXCEPT ![v] = st.prio[v]],
             pred |-> st.pred,
             heap |-> [st.heap EXCEPT ![v] = "POST_HEAP"],
             prio |-> st.prio],
            st.prio[v], OutArcs(g, v))

\* the nodes that may be at the top of the heap
DJ_top(g, st) ==
    {n \in NodeIds(g) :
        /\ st.heap[n] = "IN_HEAP"
        /\ \A m \in NodeIds(g) : st.heap[m] = "IN_HEAP" => st.prio[n] <= st.prio[m]}

\* one step of start(t) from a state of the search, for each node that may
\* be at the top: the target is finalized and the search halts, any other
\* node is processed
DJ_step(g, len, st, t) ==
    {IF v = t
     THEN [st |-> [dist |-> [st.dist EXCEPT ![v] = st.prio[v]], pred |-> st.pred,
                   heap |-> st.heap, prio |-> st.prio],
           halted |-> TRUE]
     ELSE [st |-> DJ_processNextNode(g, len, st, v), halted |-> FALSE] :
        v \in DJ_top(g, st)}

DJ_halted(g, r) == r.halted \/ DJ_top(g, r.st) = {}

RECURSIVE DJ_start(_, _, _, _)
DJ_start(g, len, runs, t) ==
    IF \A r \in runs : DJ_halted(g, r) THEN {r.st : r \in runs}
    ELSE DJ_start(g, len,
                  UNION {IF DJ_halted(g, r) THEN {r} ELSE DJ_step(g, len, r.st, t) :
                            r \in runs},
                  t)

\* the path of the predecessor arcs, from the source to node n
RECURSIVE PredPath(_, _, _)
PredPath(g, pred, n) ==
    IF pred[n] = NoArc THEN <<>>
    ELSE Append(PredPath(g, pred, SmartDigraph_source(g, pred[n])), pred[n])

\* what the wrapper reads of a run: reached(t), dist(t), path(t)
Dijkstra(g, len, s, t) ==
    {[reached |-> st.heap[t] # "PRE_HEAP",
      dist |-> st.dist[t],
      path |-> PredPath(g, st.pred, t),
      negative_cycle |-> FALSE] : st \in DJ_start(g, len, {[st |-> DJ_init(g, s), halted |-> FALSE]}, t)}

(***************************************************************************)
(* LEMON's BellmanFord, init(); addSource(s); checkedStart(): up to        *)
(* node_num rounds, each relaxing the arcs that leave the nodes whose      *)
(* distance the round before has lowered; checkedStart() is true when a    *)
(* round lowers nothing, false when the last round still does.             *)
(***************************************************************************)
BF_init(g, s) ==
    [dist |-> [n \in NodeIds(g) |-> IF n = s THEN 0 ELSE Infinity],
     pred |-> [n \in NodeIds(g) |-> NoArc],
     process |-> <<s>>]

InSeq(q, x) == \E i \in 1 .. Len(q) : q[i] = x

RECURSIVE BF_relax(_, _, _, _, _)
BF_relax(g, len, st, v, out) ==
    IF out = <<>> THEN st
    ELSE LET e == Head(out)
             w == SmartDigraph_target(g, e)
             relaxed == st.dist[v] + len[e + 1]
             st2 == IF relaxed < st.dist[w]
                    THEN [dist |-> [st.dist EXCEPT ![w] = relaxed],
                          pred |-> [st.pred EXCEPT ![w] = e],
                          process |-> IF InSeq(st.process, w) THEN st.process
                                      ELSE Append(st.process, w)]
                    ELSE st
         IN  BF_relax(g, len, st2, v, Tail(out))

RECURSIVE BF_round(_, _, _, _)
BF_round(g, len, st, process) ==
    IF process = <<>> THEN st
    ELSE BF_round(g, len, BF_relax(g, len, st, Head(process), OutArcs(g, Head(process))),
                  Tail(process))

BF_processNextWeakRound(g, len, st) ==
    BF_round(g, len, [st EXCEPT !.process = <<>>], st.process)

RECURSIVE BF_checkedStart(_, _, _, _)
BF_checkedStart(g, len, st, i) ==
    IF i = g.node_num THEN [st |-> st, done |-> st.process = <<>>]
    ELSE LET st2 == BF_processNextWeakRound(g, len, st)
         IN  IF st2.process = <<>> THEN [st |-> st2, done |-> TRUE]
             ELSE BF_checkedStart(g, len, st2, i + 1)

\* what the wrapper reads of a run; the path is read only without a cycle
BellmanFord(g, len, s, t) ==
    LET run == BF_checkedStart(g, len, BF_init(g, s), 0)
    IN  {[reached |-> run.st.dist[t] # Infinity,
          dist |-> run.st.dist[t],
          path |-> IF run.done THEN PredPath(g, run.st.pred, t) ELSE <<>>,
          negative_cycle |-> ~run.done]}

ShortestPathRuns(alg, g, len, s, t) ==
    IF alg = "dijkstra" THEN Dijkstra(g, len, s, t) ELSE BellmanFord(g, len, s, t)

(***************************************************************************)
(* lemon_dijkstra and lemon_bellman_ford                                   *)
(***************************************************************************)
\* the checks before the algorithm runs: "" when the call goes on
ShortestPathRefused(h, m, s, t) ==
    IF h = "NULL" \/ m = "NULL" THEN "null"
    ELSE IF arc_map.type # "DOUBLE" THEN "type"
    ELSE IF ~NodeIdInRange(s, nodes) \/ ~NodeIdInRange(t, nodes) THEN "range"
    ELSE ""

\* the malloc that returns no buffer, if any: that of the result record, of
\* the path record or of its arc ids; the call makes no malloc after it
MallocFailures == {"none", "result", "path", "arc_ids"}

DijkstraReached(r) == r.reached

BellmanFordReachedWrong(r) == r.reached

BellmanFordReached(r) == ~r.negative_cycle /\ r.reached

ResultReached(alg, r) ==
    IF alg = "dijkstra" THEN DijkstraReached(r) ELSE BellmanFordReached(r)

ResultNegativeCycle(alg, r) == IF alg = "dijkstra" THEN FALSE ELSE r.negative_cycle

ResultDistanceWrong(alg, r) == r.dist

ResultDistance(alg, r) == IF ResultReached(alg, r) THEN r.dist ELSE Infinity

\* the external ids of the arcs of a path, each found by searching arcs
PathArcIdsWrong(path) ==
    [i \in 1 .. Len(path) |-> IndexOf(arcs, path[Len(path) + 1 - i])]

PathArcIds(path) ==
    SelectSeq([i \in 1 .. Len(path) |-> IndexOf(arcs, path[i])], LAMBDA id : id # -1)

NullPath == [present |-> FALSE, count |-> 0, arc_ids |-> <<>>]

\* a PathResult; arc_ids is a null pointer when count is 0
PathResult(arc_ids) == [present |-> TRUE, count |-> Len(arc_ids), arc_ids |-> arc_ids]

ResultPathWrong(arc_ids, fail) ==
    IF arc_ids = <<>> THEN NullPath
    ELSE IF fail = "path" THEN NullPath
    ELSE IF fail = "arc_ids" THEN NullPath
    ELSE PathResult(arc_ids)

ResultPath(arc_ids, fail) ==
    IF arc_ids = <<>> THEN IF fail = "path" THEN NullPath ELSE PathResult(<<>>)
    ELSE IF fail = "path" THEN NullPath
    ELSE IF fail = "arc_ids" THEN NullPath
    ELSE PathResult(arc_ids)

\* the failing malloc is one the call makes
MallocFailed(alg, r, fail) ==
    \/ fail = "result"
    \/ ResultReached(alg, r) /\ fail = "path"
    \/ ResultReached(alg, r) /\ PathArcIds(r.path) # <<>> /\ fail = "arc_ids"

\* the ShortestPathResult the caller gets
ShortestPathResult(alg, r, fail) ==
    [err |-> IF MallocFailed(alg, r, fail) THEN "alloc" ELSE "",
     distance |-> ResultDistance(alg, r),
     path |-> IF ResultReached(alg, r) THEN ResultPath(PathArcIds(r.path), fail)
              ELSE NullPath,
     reached |-> ResultReached(alg, r),
     negative_cycle |-> ResultNegativeCycle(alg, r)]

\* ret: 1 for a result record, 0 for nullptr
shortest_path(alg, h, m, s, t, fail) ==
    /\ m = "map" => arc_map.type # "NONE"
    /\ IF ShortestPathRefused(h, m, s, t) # ""
       THEN last' = Call(alg, h, 0, 0, 0, [err |-> ShortestPathRefused(h, m, s, t)])
       ELSE \E r \in ShortestPathRuns(alg, graph, arc_map.cells,
                                       nodes[s + 1], nodes[t + 1]) :
                last' = IF fail = "result"
                        THEN Call(alg, h, 0, 0, 0, [err |-> "alloc"])
                        ELSE Call(alg, h, s, t, 1, ShortestPathResult(alg, r, fail))
    /\ UNCHANGED <<graph, nodes, arcs, arc_map, node_map, hist>>

lemon_dijkstra(h, m, s, t, fail) == shortest_path("dijkstra", h, m, s, t, fail)

lemon_bellman_ford(h, m, s, t, fail) ==
    shortest_path("bellman_ford", h, m, s, t, fail)

(***************************************************************************)
(* The states in which an algorithm is called: a graph built by            *)
(* lemon_add_node and lemon_add_arc, and an arc map created on it and      *)
(* filled by the set operation of its kind (or no map at all).             *)
(***************************************************************************)
AlgorithmOps == {"edmonds_karp", "preflow", "dijkstra", "bellman_ford"}

Built(n, ends, map) ==
    /\ graph = [node_num |-> n, arc_ends |-> ends]
    /\ nodes = DenseIds(n)
    /\ arcs = DenseIds(Len(ends))
    /\ arc_map = map
    /\ node_map = NoNodeMap
    /\ last = Call("built", "graph", 0, 0, 0, NoOut)
    /\ hist = [node_ids |-> DenseIds(n), arc_ids |-> DenseIds(Len(ends)),
               arc_count0 |-> Len(ends), node_count0 |-> 0]

BuiltGraphs(n) ==
    UNION {[1 .. k -> [source : 0 .. (n - 1), target : 0 .. (n - 1)]] :
              k \in 0 .. MaxAlgArcs}

FilledMaps(t, k, values) == {[type |-> t, cells |-> c] : c \in [1 .. k -> values]}

NodeIdArgs == 0 .. (MaxNodes - 1)

(***************************************************************************)
(* Max flow.  An algorithm call changes nothing but what it returns, so a  *)
(* behaviour is one call in one of the states above.                       *)
(***************************************************************************)
Capacities == -1 .. MaxVal

InitFlow ==
    \E n \in 0 .. MaxNodes : \E ends \in BuiltGraphs(n) :
        \E map \in {NoArcMap} \cup FilledMaps("DOUBLE", Len(ends), {0})
                      \cup FilledMaps("LONG", Len(ends), Capacities) :
            Built(n, ends, map)

NextFlow ==
    \/ last.op = "built"
         /\ \E m \in MapHandles, s, t \in NodeIdArgs, ok \in BOOLEAN :
                lemon_edmonds_karp("graph", m, s, t, ok)
    \/ last.op = "built"
         /\ \E m \in MapHandles, s, t \in NodeIdArgs, ok \in BOOLEAN :
                lemon_preflow("graph", m, s, t, ok)

SpecFlow == InitFlow /\ [][NextFlow]_vars

(***************************************************************************)
(* Shortest paths, in the same way: one call on a built graph.             *)
(***************************************************************************)
Lengths == -1 .. MaxVal

InitPath ==
    \E n \in 0 .. MaxNodes : \E ends \in BuiltGraphs(n) :
        \E map \in {NoArcMap} \cup FilledMaps("LONG", Len(ends), {0})
                      \cup FilledMaps("DOUBLE", Len(ends), Lengths) :
            Built(n, ends, map)

NextPath ==
    \/ last.op = "built"
         /\ \E m \in MapHandles, s, t \in NodeIdArgs, fail \in MallocFailures :
                lemon_dijkstra("graph", m, s, t, fail)
    \/ last.op = "built"
         /\ \E m \in MapHandles, s, t \in NodeIdArgs, fail \in MallocFailures :
                lemon_bellman_ford("graph", m, s, t, fail)

SpecPath == InitPath /\ [][NextPath]_vars

(***************************************************************************)
(* The whole interface: every operation, in any order, on one small graph, *)
(* with null handles, ids out of range and maps of either kind.  Every     *)
(* malloc of an algorithm call returns a buffer here.                      *)
(***************************************************************************)
InterfaceNodeArgs == -1 .. (MaxInterfaceNodes - 1)

InterfaceArcArgs == -1 .. (MaxInterfaceArcs - 1)

\* the arguments of an algorithm call: graph, map, source, target; a null
\* handle or a negative id comes with other arguments that are in range once
\* the graph has a node
AlgorithmArgs ==
    {<<"graph", "map", s, t>> : s, t \in 0 .. (MaxInterfaceNodes - 1)}
        \cup {<<"graph", "map", -1, 0>>, <<"graph", "map", 0, -1>>,
              <<"NULL", "map", 0, 0>>, <<"graph", "NULL", 0, 0>>}

\* the arguments of a call that takes a handle and an id
IdArgs(handle, ids) == {<<handle, i>> : i \in ids} \cup {<<"NULL", 0>>}

\* the arguments of lemon_add_arc: graph, source, target
AddArcArgs ==
    {<<"graph", s, t>> : s, t \in InterfaceNodeArgs} \cup {<<"NULL", 0, 0>>}

NextInterface ==
    \/ Len(nodes) < MaxInterfaceNodes /\ \E h \in GraphHandles : lemon_add_node(h)
    \/ Len(arcs) < MaxInterfaceArcs
         /\ \E c \in AddArcArgs : lemon_add_arc(c[1], c[2], c[3])
    \/ \E c \in IdArgs("graph", InterfaceArcArgs) : lemon_arc_source(c[1], c[2])
    \/ \E c \in IdArgs("graph", InterfaceArcArgs) : lemon_arc_target(c[1], c[2])
    \/ \E h \in GraphHandles : lemon_node_count(h)
    \/ \E h \in GraphHandles : lemon_arc_count(h)
    \/ \E h \in GraphHandles : lemon_create_arc_map_long(h)
    \/ \E h \in GraphHandles : lemon_create_arc_map_double(h)
    \/ \E m \in MapHandles : lemon_destroy_arc_map(m)
    \/ \E c \in IdArgs("map", InterfaceArcArgs), v \in MapValues :
            lemon_set_arc_value_long(c[1], c[2], v)
    \/ \E c \in IdArgs("map", InterfaceArcArgs) : lemon_get_arc_value_long(c[1], c[2])
    \/ \E c \in IdArgs("map", InterfaceArcArgs), v \in MapValues :
            lemon_set_arc_value_double(c[1], c[2], v)
    \/ \E c \in IdArgs("map", InterfaceArcArgs) :
            lemon_get_arc_value_double(c[1], c[2])
    \/ \E h \in GraphHandles : lemon_create_node_map_double(h)
    \/ \E m \in MapHandles : lemon_destroy_node_map(m)
    \/ \E c \in IdArgs("map", InterfaceNodeArgs), v \in MapValues :
            lemon_set_node_value_double(c[1], c[2], v)
    \/ \E c \in IdArgs("map", InterfaceNodeArgs) :
            lemon_get_node_value_double(c[1], c[2])
    \/ \E c \in AlgorithmArgs : lemon_edmonds_karp(c[1], c[2], c[3], c[4], TRUE)
    \/ \E c \in AlgorithmArgs : lemon_preflow(c[1], c[2], c[3], c[4], TRUE)
    \/ \E c \in AlgorithmArgs : lemon_dijkstra(c[1], c[2], c[3], c[4], "none")
    \/ \E c \in AlgorithmArgs : lemon_bellman_ford(c[1], c[2], c[3], c[4], "none")

SpecInterface == Init /\ [][NextInterface]_vars

(***************************************************************************)
(* Properties of the graph store.                                          *)
(***************************************************************************)
\* C6: node ids and arc ids are dense, zero-based and in creation order:
\* a successful lemon_add_node (lemon_add_arc) returns the value
\* lemon_node_count (lemon_arc_count) had before the call, neither count ever
\* decreases, and the ids returned so far are 0, 1, 2, ... with none twice.
C6_AddStep ==
    /\ lemon_add_node("graph") => last'.ret = NodeCountRet("graph")
    /\ (\E s, t \in NodeArgs : lemon_add_arc("graph", s, t) /\ last'.ret # -1)
          => last'.ret = ArcCountRet("graph")
    /\ NodeCountRet("graph")' >= NodeCountRet("graph")
    /\ ArcCountRet("graph")' >= ArcCountRet("graph")
    /\ hist'.node_ids = DenseIds(NodeCountRet("graph")')
    /\ hist'.arc_ids = DenseIds(ArcCountRet("graph")')

C6_DenseIdsInCreationOrder == [][C6_AddStep]_vars

C6_Witness ==
    /\ last.op = "add_arc" /\ last.ret = 1
    /\ hist.arc_ids = <<0, 1>>
    /\ Len(hist.node_ids) >= 2

\* C7: lemon_add_arc with a source or target id outside [0, nodeCount) returns
\* -1 and leaves the node count, the arc count and every arc's endpoints as
\* they were; lemon_arc_source and lemon_arc_target with an arc id outside
\* [0, arcCount) return -1.
C7_Step ==
    /\ \A s, t \in NodeArgs :
          (/\ (s \notin 0 .. (Len(nodes) - 1) \/ t \notin 0 .. (Len(nodes) - 1))
           /\ lemon_add_arc("graph", s, t))
          => /\ last'.ret = -1
             /\ NodeCountRet("graph")' = NodeCountRet("graph")
             /\ ArcCountRet("graph")' = ArcCountRet("graph")
             /\ graph'.arc_ends = graph.arc_ends
    /\ \A a \in ArcArgs :
          (a \notin 0 .. (Len(arcs) - 1) /\ lemon_arc_source("graph", a))
          => last'.ret = -1
    /\ \A a \in ArcArgs :
          (a \notin 0 .. (Len(arcs) - 1) /\ lemon_arc_target("graph", a))
          => last'.ret = -1

C7_InvalidReferenceReturnsMinusOne == [][C7_Step]_vars

C7_Witness ==
    /\ last.op = "add_arc" /\ last.h = "graph" /\ last.ret = -1
    /\ Len(arcs) >= 1 /\ Len(nodes) >= 2

(***************************************************************************)
(* Properties of the attribute maps.                                       *)
(***************************************************************************)
MapTypes == {"LONG", "DOUBLE"}

SetArcStep(t, a, v) ==
    IF t = "LONG" THEN lemon_set_arc_value_long("map", a, v)
    ELSE lemon_set_arc_value_double("map", a, v)

GetArcStep(t, a) ==
    IF t = "LONG" THEN lemon_get_arc_value_long("map", a)
    ELSE lemon_get_arc_value_double("map", a)

\* C8 as claimed: the range of a map is the id space at the time the map was
\* created: a set on an id outside [0, count-at-creation) changes nothing, and
\* a get on such an id returns zero, also right after a set on it.
C8_OriginalStep ==
    /\ \A t \in MapTypes, a \in ArcArgs, v \in MapValues :
          (SetArcStep(t, a, v) /\ a \notin 0 .. (hist.arc_count0 - 1))
          => (arc_map' = arc_map /\ GetArcValue("map", t, a)' = 0)
    /\ \A t \in MapTypes, a \in ArcArgs :
          (GetArcStep(t, a) /\ a \notin 0 .. (hist.arc_count0 - 1))
          => last'.ret = 0
    /\ \A n \in NodeArgs, v \in MapValues :
          (lemon_set_node_value_double("map", n, v)
             /\ n \notin 0 .. (hist.node_count0 - 1))
          => (node_map' = node_map /\ GetNodeValue("map", n)' = 0)
    /\ \A n \in NodeArgs :
          (lemon_get_node_value_double("map", n)
             /\ n \notin 0 .. (hist.node_count0 - 1))
          => last'.ret = 0

C8_RangeIsCountAtCreation == [][C8_OriginalStep]_vars

\* C8 as amended: the range of a map is the id space of the graph at the time
\* of the call: a set on an id outside [0, current count) changes nothing and
\* a get on such an id returns zero; the id of an arc or node added after the
\* map was created is in range, and a set on it followed by a get returns the
\* value set.
C8_AmendedStep ==
    /\ \A t \in MapTypes, a \in ArcArgs, v \in MapValues :
          SetArcStep(t, a, v)
          => IF a \in 0 .. (Len(arcs) - 1)
             THEN arc_map.type = t => GetArcValue("map", t, a)' = v
             ELSE arc_map' = arc_map /\ GetArcValue("map", t, a)' = 0
    /\ \A t \in MapTypes, a \in ArcArgs :
          (GetArcStep(t, a) /\ a \notin 0 .. (Len(arcs) - 1)) => last'.ret = 0
    /\ \A n \in NodeArgs, v \in MapValues :
          lemon_set_node_value_double("map", n, v)
          => IF n \in 0 .. (Len(nodes) - 1)
             THEN GetNodeValue("map", n)' = v
             ELSE node_map' = node_map /\ GetNodeValue("map", n)' = 0
    /\ \A n \in NodeArgs :
          (lemon_get_node_value_double("map", n) /\ n \notin 0 .. (Len(nodes) - 1))
          => last'.ret = 0

C8_RangeIsCurrentCount == [][C8_AmendedStep]_vars

\* a get has returned a value set on an arc that was added after the map
C8_Witness ==
    /\ last.op = "get_arc_value_long" /\ last.ret # 0
    /\ arc_map.type = "LONG"
    /\ Len(arcs) > hist.arc_count0
    /\ \A i \in 1 .. hist.arc_count0 : arc_map.cells[i] = 0

(***************************************************************************)
(* Properties of the max-flow calls.                                       *)
(***************************************************************************)
MaxFlowOps == {"edmonds_karp", "preflow"}

\* the latest call was a max-flow call that returned a flow value
MaxFlowReturned == last.op \in MaxFlowOps /\ last.out.err = ""

OtherMaxFlow(op) == IF op = "edmonds_karp" THEN "preflow" ELSE "edmonds_karp"

NonNegativeCapacities == \A i \in 1 .. Len(arc_map.cells) : arc_map.cells[i] >= 0

\* C1: for non-negative capacities and source # target, lemon_edmonds_karp
\* and lemon_preflow return the same maxFlowValue: what the call returned is
\* what the other algorithm returns for the same graph, map, source and target.
C1_SameMaxFlowValue ==
    (MaxFlowReturned /\ last.x # last.y /\ NonNegativeCapacities)
    => \A r \in MaxFlowRuns(OtherMaxFlow(last.op), graph, arc_map.cells,
                             nodes[last.x + 1], nodes[last.y + 1]) :
           MaxFlowReturn(r, TRUE).ret = last.ret

\* a positive flow over at least two arcs that leaves some capacity unused
C1_Witness ==
    /\ MaxFlowReturned /\ last.x # last.y /\ NonNegativeCapacities
    /\ last.op = "preflow"
    /\ last.ret >= 1
    /\ last.out.flow_count >= 2
    /\ \E i \in 1 .. Len(arcs) :
          /\ arc_map.cells[i] > 0
          /\ \A k \in 1 .. last.out.flow_count : last.out.flow_results[k].arc_id # i - 1

\* the flow the caller reads for an arc id, an omitted arc carrying 0
ReturnedFlow(a) ==
    IF last.out.flow_count = 0 THEN 0
    ELSE LET hit == SelectSeq(last.out.flow_results, LAMBDA e : e.arc_id = a)
         IN  IF hit = <<>> THEN 0 ELSE hit[1].flow

Inflow(n) ==
    SeqSum([i \in 1 .. Len(arcs) |->
               IF ArcTargetRet("graph", i - 1) = n THEN ReturnedFlow(i - 1) ELSE 0])

Outflow(n) ==
    SeqSum([i \in 1 .. Len(arcs) |->
               IF ArcSourceRet("graph", i - 1) = n THEN ReturnedFlow(i - 1) ELSE 0])

FlowIsFeasible ==
    /\ \A n \in (0 .. (Len(nodes) - 1)) \ {last.x, last.y} : Inflow(n) = Outflow(n)
    /\ Outflow(last.x) - Inflow(last.x) = last.ret
    /\ \A a \in 0 .. (Len(arcs) - 1) : ReturnedFlow(a) <= GetArcValue("map", "LONG", a)

\* C2 as claimed: the flow assignment of every successful max-flow call
\* conserves flow at every node other than source and target, leaves the
\* source with net outflow maxFlowValue, and exceeds no arc's capacity.
C2_FlowConservation == MaxFlowReturned => FlowIsFeasible

\* C2 as amended: the same, for a capacity map with no negative capacity and
\* source # target.
C2_FlowConservationNonNegative ==
    (MaxFlowReturned /\ last.x # last.y /\ NonNegativeCapacities) => FlowIsFeasible

\* a flow through an intermediate node has been returned
C2_Witness ==
    /\ MaxFlowReturned /\ last.x # last.y /\ NonNegativeCapacities
    /\ last.ret >= 1
    /\ \E n \in (0 .. (Len(nodes) - 1)) \ {last.x, last.y} : Inflow(n) >= 1

(***************************************************************************)
(* Properties of the shortest-path calls.  The graph is read as a caller   *)
(* reads it, by lemon_arc_source, lemon_arc_target and                     *)
(* lemon_get_arc_value_double.                                             *)
(***************************************************************************)
ShortestPathOps == {"dijkstra", "bellman_ford"}

\* the latest call was a shortest-path call that returned a result record
ShortestPathReturned == last.op \in ShortestPathOps /\ last.ret = 1

OtherShortestPath(op) == IF op = "dijkstra" THEN "bellman_ford" ELSE "dijkstra"

LengthOf(a) == GetArcValue("map", "DOUBLE", a)

NonNegativeLengths == \A a \in 0 .. (Len(arcs) - 1) : LengthOf(a) >= 0

\* the arc ids in walk form a contiguous chain from node u to node v
IsChain(walk, u, v) ==
    /\ \A i \in 1 .. Len(walk) : ArcIdInRange(walk[i], arcs)
    /\ IF walk = <<>> THEN u = v
       ELSE /\ ArcSourceRet("graph", walk[1]) = u
            /\ \A i \in 1 .. (Len(walk) - 1) :
                  ArcTargetRet("graph", walk[i]) = ArcSourceRet("graph", walk[i + 1])
            /\ ArcTargetRet("graph", walk[Len(walk)]) = v

WalkLength(walk) == SeqSum([i \in 1 .. Len(walk) |-> LengthOf(walk[i])])

\* some walk of at least one and at most k arcs leads from node u to node v
\* and is shorter than bound
RECURSIVE ShortWalk(_, _, _, _)
ShortWalk(u, v, k, bound) ==
    /\ k > 0
    /\ \E a \in 0 .. (Len(arcs) - 1) :
          /\ ArcSourceRet("graph", a) = u
          /\ \/ ArcTargetRet("graph", a) = v /\ LengthOf(a) < bound
             \/ ShortWalk(ArcTargetRet("graph", a), v, k - 1, bound - LengthOf(a))

\* v can be reached from u; a path needs fewer arcs than there are nodes
Reachable(u, v) == u = v \/ ShortWalk(u, v, Len(nodes) - 1, Infinity)

\* a cycle of negative length can be reached from u; a simple cycle has no
\* more arcs than there are nodes
NegativeCycleReachable(u) ==
    \E v \in 0 .. (Len(nodes) - 1) :
        Reachable(u, v) /\ ShortWalk(v, v, Len(nodes), 0)

\* C3: for a length map with no negative length and valid source and target,
\* lemon_dijkstra and lemon_bellman_ford return the same reached flag and the
\* same distance: what the call returned is what the other algorithm returns
\* for the same graph, map, source and target.
C3_SameReachedAndDistance ==
    (ShortestPathReturned /\ NonNegativeLengths)
    => \A r \in ShortestPathRuns(OtherShortestPath(last.op), graph, arc_map.cells,
                                  nodes[last.x + 1], nodes[last.y + 1]) :
           /\ ResultReached(OtherShortestPath(last.op), r) = last.out.reached
           /\ ResultDistance(OtherShortestPath(last.op), r) = last.out.distance

\* a target reached over two arcs at distance 1, a third arc leading nowhere
C3_Witness ==
    /\ ShortestPathReturned /\ NonNegativeLengths
    /\ last.op = "dijkstra"
    /\ last.out.reached /\ last.out.distance = 1
    /\ last.out.path.count = 2
    /\ Len(arcs) = 3

\* C4: when a cycle of negative length can be reached from the source,
\* lemon_bellman_ford returns negative_cycle = 1, reached = 0, distance =
\* +infinity and no path, whatever the target; when none can, it returns
\* negative_cycle = 0.  lemon_dijkstra always returns negative_cycle = 0.
C4_NegativeCycleReported ==
    /\ (ShortestPathReturned /\ last.op = "bellman_ford")
       => IF NegativeCycleReachable(last.x)
          THEN /\ last.out.negative_cycle
               /\ ~last.out.reached
               /\ last.out.distance = Infinity
               /\ ~last.out.path.present
          ELSE ~last.out.negative_cycle
    /\ (ShortestPathReturned /\ last.op = "dijkstra") => ~last.out.negative_cycle

\* a negative cycle through two nodes, the target a third node the source
\* reaches
C4_Witness ==
    /\ ShortestPathReturned /\ last.op = "bellman_ford"
    /\ last.out.negative_cycle
    /\ last.x # last.y
    /\ Reachable(last.x, last.y)
    /\ \E a, b \in 0 .. (Len(arcs) - 1) :
          /\ ArcSourceRet("graph", a) # ArcTargetRet("graph", a)
          /\ IsChain(<<a, b>>, ArcSourceRet("graph", a), ArcSourceRet("graph", a))
          /\ ArcSourceRet("graph", a) # last.y
          /\ ArcTargetRet("graph", a) # last.y
          /\ WalkLength(<<a, b>>) < 0

\* C5: when a shortest-path call returns reached = 1, the arc ids of the
\* path it returns are valid arc ids and form a contiguous chain from the
\* source to the target, in that order, and the lengths of the arcs sum to
\* the distance returned.
C5_PathIsChainOfDistance ==
    (ShortestPathReturned /\ last.out.reached /\ last.out.path.present)
    => /\ Len(last.out.path.arc_ids) = last.out.path.count
       /\ IsChain(last.out.path.arc_ids, last.x, last.y)
       /\ WalkLength(last.out.path.arc_ids) = last.out.distance

\* a path of two arcs, the later created first, taken for a longer arc that
\* leads from the source to the target
C5_Witness ==
    /\ ShortestPathReturned /\ last.out.reached /\ last.out.path.present
    /\ last.out.path.count = 2
    /\ last.out.path.arc_ids[1] > last.out.path.arc_ids[2]
    /\ \E a \in 0 .. (Len(arcs) - 1) :
          IsChain(<<a>>, last.x, last.y) /\ LengthOf(a) > last.out.distance

\* C9: a call that cannot allocate a result buffer returns no partial
\* result: a max-flow call returns -1 with no flow list and count 0, and a
\* shortest-path call returns no result record that has reached = 1 and a
\* finite distance but no path.
C9_NoPartialResult ==
    /\ (last.op \in MaxFlowOps /\ last.out.err = "alloc")
       => /\ last.ret = -1
          /\ last.out.flow_count = 0
          /\ last.out.flow_results = "NULL"
    /\ (ShortestPathReturned /\ last.out.err = "alloc")
       => ~(/\ last.out.reached
            /\ last.out.distance < Infinity
            /\ ~last.out.path.present)

\* C10: when every allocation succeeds, the result of a shortest-path call
\* has a path exactly when reached = 1: with source = target and no negative
\* cycle to reach, reached = 1, distance = 0 and the path is there with count
\* 0; with a target that cannot be reached from the source, reached = 0,
\* distance = +infinity and the path is null.
C10_PathPresentIffReached ==
    (ShortestPathReturned /\ last.out.err = "")
    => /\ last.out.path.present <=> last.out.reached
       /\ (last.x = last.y /\ ~NegativeCycleReachable(last.x))
          => /\ last.out.reached
             /\ last.out.distance = 0
             /\ last.out.path.present
             /\ last.out.path.count = 0
       /\ ~Reachable(last.x, last.y)
          => /\ ~last.out.reached
             /\ last.out.distance = Infinity
             /\ ~last.out.path.present

\* source = target on a graph where arcs leave and enter the source
C10_Witness ==
    /\ ShortestPathReturned /\ last.out.err = ""
    /\ last.op = "bellman_ford"
    /\ last.x = last.y
    /\ last.out.path.present /\ last.out.path.count = 0
    /\ \E a, b \in 0 .. (Len(arcs) - 1) :
          /\ ArcSourceRet("graph", a) # ArcTargetRet("graph", a)
          /\ IsChain(<<a, b>>, last.x, last.x)

(***************************************************************************)
(* Properties of the interface as a whole.                                 *)
(***************************************************************************)
\* the graph and the attribute maps are as they were
StateUnchanged == UNCHANGED <<graph, nodes, arcs, arc_map, node_map>>

\* a node id, an arc id outside the id space of the graph
BadNodeId(n) == n < 0 \/ n >= NodeCountRet("graph")

BadArcId(a) == a < 0 \/ a >= ArcCountRet("graph")

\* what a caller gets from a function that returns nothing
Nothing == 0

\* a call is settled: with bad arguments it changes nothing and returns the
\* failure value of its function; with good arguments a function that is
\* held to report its failures returns another value
Settled(reporting, h, call, bad, failure) ==
    (last'.h = h /\ (bad \/ last'.op \in reporting) /\ call)
    => IF bad THEN StateUnchanged /\ last'.ret = failure
       ELSE last'.op \in reporting => last'.ret # failure

StoreCallsSettled(reporting) ==
    /\ last'.op = "add_node"
          => \A h \in GraphHandles :
                Settled(reporting, h, lemon_add_node(h), h = "NULL", -1)
    /\ last'.op = "add_arc"
          => \A c \in AddArcArgs :
                Settled(reporting, c[1], lemon_add_arc(c[1], c[2], c[3]),
                        c[1] = "NULL" \/ BadNodeId(c[2]) \/ BadNodeId(c[3]), -1)
    /\ last'.op = "arc_source"
          => \A c \in IdArgs("graph", InterfaceArcArgs) :
                Settled(reporting, c[1], lemon_arc_source(c[1], c[2]),
                        c[1] = "NULL" \/ BadArcId(c[2]), -1)
    /\ last'.op = "arc_target"
          => \A c \in IdArgs("graph", InterfaceArcArgs) :
                Settled(reporting, c[1], lemon_arc_target(c[1], c[2]),
                        c[1] = "NULL" \/ BadArcId(c[2]), -1)
    /\ last'.op = "node_count"
          => \A h \in GraphHandles :
                Settled(reporting, h, lemon_node_count(h), h = "NULL", 0)
    /\ last'.op = "arc_count"
          => \A h \in GraphHandles :
                Settled(reporting, h, lemon_arc_count(h), h = "NULL", 0)

ArcMapCallsSettled(reporting) ==
    /\ last'.op = "create_arc_map_long"
          => \A h \in GraphHandles :
                Settled(reporting, h, lemon_create_arc_map_long(h), h = "NULL", 0)
    /\ last'.op = "create_arc_map_double"
          => \A h \in GraphHandles :
                Settled(reporting, h, lemon_create_arc_map_double(h), h = "NULL", 0)
    /\ last'.op = "destroy_arc_map"
          => \A m \in MapHandles :
                Settled(reporting, m, lemon_destroy_arc_map(m), m = "NULL", Nothing)
    /\ last'.op = "set_arc_value_long"
          => \A c \in IdArgs("map", InterfaceArcArgs), v \in MapValues :
                Settled(reporting, c[1], lemon_set_arc_value_long(c[1], c[2], v),
                        c[1] = "NULL" \/ arc_map.type # "LONG" \/ BadArcId(c[2]),
                        Nothing)
    /\ last'.op = "get_arc_value_long"
          => \A c \in IdArgs("map", InterfaceArcArgs) :
                Settled(reporting, c[1], lemon_get_arc_value_long(c[1], c[2]),
                        c[1] = "NULL" \/ arc_map.type # "LONG" \/ BadArcId(c[2]), 0)
    /\ last'.op = "set_arc_value_double"
          => \A c \in IdArgs("map", InterfaceArcArgs), v \in MapValues :
                Settled(reporting, c[1], lemon_set_arc_value_double(c[1], c[2], v),
                        c[1] = "NULL" \/ arc_map.type # "DOUBLE" \/ BadArcId(c[2]),
                        Nothing)
    /\ last'.op = "get_arc_value_double"
          => \A c \in IdArgs("map", InterfaceArcArgs) :
                Settled(reporting, c[1], lemon_get_arc_value_double(c[1], c[2]),
                        c[1] = "NULL" \/ arc_map.type # "DOUBLE" \/ BadArcId(c[2]), 0)

NodeMapCallsSettled(reporting) ==
    /\ last'.op = "create_node_map_double"
          => \A h \in GraphHandles :
                Settled(reporting, h, lemon_create_node_map_double(h), h = "NULL", 0)
    /\ last'.op = "destroy_node_map"
          => \A m \in MapHandles :
                Settled(reporting, m, lemon_destroy_node_map(m), m = "NULL", Nothing)
    /\ last'.op = "set_node_value_double"
          => \A c \in IdArgs("map", InterfaceNodeArgs), v \in MapValues :
                Settled(reporting, c[1], lemon_set_node_value_double(c[1], c[2], v),
                        c[1] = "NULL" \/ BadNodeId(c[2]), Nothing)
    /\ last'.op = "get_node_value_double"
          => \A c \in IdArgs("map", InterfaceNodeArgs) :
                Settled(reporting, c[1], lemon_get_node_value_double(c[1], c[2]),
                        c[1] = "NULL" \/ BadNodeId(c[2]), 0)

\* the arguments of an algorithm call are bad for a map of the given kind
BadAlgorithmArgs(c, type) ==
    \/ c[1] = "NULL"
    \/ c[2] = "NULL"
    \/ arc_map.type # type
    \/ BadNodeId(c[3])
    \/ BadNodeId(c[4])

\* an algorithm call is settled; refused: the outcome of the checks the call
\* makes first, "" when it goes on to run the algorithm
AlgorithmSettled(reporting, c, call, refused, bad, failure) ==
    (last'.h = c[1] /\ last'.out.err = refused)
    => IF bad THEN call => StateUnchanged /\ last'.ret = failure
       ELSE (last'.x = c[3] /\ last'.y = c[4] /\ last'.op \in reporting)
            => last'.ret # failure

AlgorithmCallsSettled(reporting) ==
    /\ last'.op = "edmonds_karp"
          => \A c \in AlgorithmArgs :
                AlgorithmSettled(reporting, c,
                                 lemon_edmonds_karp(c[1], c[2], c[3], c[4], TRUE),
                                 MaxFlowRefused(c[1], c[2], c[3], c[4]),
                                 BadAlgorithmArgs(c, "LONG"), -1)
    /\ last'.op = "preflow"
          => \A c \in AlgorithmArgs :
                AlgorithmSettled(reporting, c,
                                 lemon_preflow(c[1], c[2], c[3], c[4], TRUE),
                                 MaxFlowRefused(c[1], c[2], c[3], c[4]),
                                 BadAlgorithmArgs(c, "LONG"), -1)
    /\ last'.op = "dijkstra"
          => \A c \in AlgorithmArgs :
                AlgorithmSettled(reporting, c,
                                 lemon_dijkstra(c[1], c[2], c[3], c[4], "none"),
                                 ShortestPathRefused(c[1], c[2], c[3], c[4]),
                                 BadAlgorithmArgs(c, "DOUBLE"), 0)
    /\ last'.op = "bellman_ford"
          => \A c \in AlgorithmArgs :
                AlgorithmSettled(reporting, c,
                                 lemon_bellman_ford(c[1], c[2], c[3], c[4], "none"),
                                 ShortestPathRefused(c[1], c[2], c[3], c[4]),
                                 BadAlgorithmArgs(c, "DOUBLE"), 0)

CallsSettled(reporting) ==
    /\ StoreCallsSettled(reporting)
    /\ ArcMapCallsSettled(reporting)
    /\ NodeMapCallsSettled(reporting)
    /\ AlgorithmCallsSettled(reporting)

\* the functions that return an id, a handle, a flow value or a result
ReportingOps ==
    {"add_node", "add_arc", "arc_source", "arc_target", "create_arc_map_long",
     "create_arc_map_double", "create_node_map_double", "edmonds_karp", "preflow",
     "dijkstra", "bellman_ford"}

\* the functions that return nothing, a count or a map value
SilentOps ==
    {"node_count", "arc_count", "destroy_arc_map", "destroy_node_map",
     "set_arc_value_long", "set_arc_value_double", "set_node_value_double",
     "get_arc_value_long", "get_arc_value_double", "get_node_value_double"}

NewArcHasEndpointsPassed ==
    \A c \in AddArcArgs :
        (last'.op = "add_arc" /\ last'.ret >= 0 /\ lemon_add_arc(c[1], c[2], c[3]))
        => /\ ArcSourceRet("graph", last.ret)' = c[2]
           /\ ArcTargetRet("graph", last.ret)' = c[3]
           /\ c[2] >= 0
           /\ c[3] >= 0

\* a call leaves the answers for the arcs that exist as they were; they are
\* computed from graph, nodes and arcs
ArcEndpointsKept ==
    \/ UNCHANGED <<graph, nodes, arcs>>
    \/ \A a \in 0 .. (ArcCountRet("graph") - 1) :
          /\ ArcSourceRet("graph", a)' = ArcSourceRet("graph", a)
          /\ ArcTargetRet("graph", a)' = ArcTargetRet("graph", a)

\* C12: lemon_arc_source(a) and lemon_arc_target(a) return the node ids passed
\* to the lemon_add_arc call that returned a, from that call on and through
\* every later call (add, map, algorithm), never -1 or another node's id.
C12_ArcEndpointsAsPassed == [][NewArcHasEndpointsPassed /\ ArcEndpointsKept]_vars

\* two parallel self-loops on the second node, a length set in a map, and
\* lemon_bellman_ford has returned a result
C12_Witness ==
    /\ ArcCountRet("graph") = 2
    /\ \A a \in {0, 1} : ArcSourceRet("graph", a) = 1 /\ ArcTargetRet("graph", a) = 1
    /\ arc_map.type = "DOUBLE"
    /\ \E i \in 1 .. Len(arc_map.cells) : arc_map.cells[i] = 1
    /\ last.op = "bellman_ford"
    /\ last.ret = 1

====
